---- MODULE Spec2Model ----
(***************************************************************************)
(* The repository-grading pipeline of the python_analyzer service:         *)
(*   LineCounter      (line_counter.py)       effective lines of one file  *)
(*   FileAnalyzer     (file_analyzer.py)      walk, filters, per-file count*)
(*   GradingCalculator(grading_calculator.py) threshold ratio grade        *)
(*   PythonAnalyzerService.analyze (service.py) the composed operation     *)
(*                                                                         *)
(* Text is modelled as a sequence of symbols.  A symbol stands for a run   *)
(* of characters that the code never looks inside: "x" is a run of code    *)
(* characters, " " is whitespace, "#" the hash sign, DQ and SQ the two     *)
(* triple-quote delimiters, NL the newline.  Path names are sequences of   *)
(* symbols as well ("test_", "module", ".py", "/", ...), patterns use the  *)
(* symbols "*" and "**".                                                   *)
(*                                                                         *)
(* A grade is a number of hundredths (8000 is 80.0).                       *)
(***************************************************************************)
EXTENDS Integers, Sequences, FiniteSets, TLC

VARIABLES
    \* constructor-time fields
    line_threshold,        \* GradingCalculator.line_threshold
    exclude_comments,      \* LineCounter.exclude_comments
    exclude_blank_lines,   \* LineCounter.exclude_blank_lines
    exclude_docstrings,    \* LineCounter.exclude_docstrings
    file_extensions,       \* FileAnalyzer.file_extensions
    exclude_patterns,      \* FileAnalyzer.exclude_patterns
    \* GradingCalculator.calculate_grade
    file_details,          \* the list handed to calculate_grade (mutated in place)
    results,               \* the dictionary returned last
    \* LineCounter.count_lines on one file
    content,               \* the text of the file
    lc_pc,                 \* "start", "scan", "done"
    lines,                 \* content.split('\n')
    idx,                   \* position of the for loop in lines
    counted,               \* local counted
    in_docstring,          \* local in_docstring
    docstring_delimiter,   \* local docstring_delimiter
    lc_result,             \* the pair returned
    \* the file system and PythonAnalyzerService.analyze
    repo_files,            \* the files below the repository directory
    unreadable,            \* those of them that open() or decoding fails on
    repository_path,       \* the argument of the last analyze call
    walked,                \* the directories os.walk listed, in order
    counted_files,         \* the files handed to count_lines, in order
    raised,                \* what analyze_repository raised in the last call
    previous,              \* the analyze call before the last: its path and result
    \* GradeManagerService.process
    email_records,         \* input_data['email_records']
    max_workers,           \* config parallelism.max_workers
    delete_repos_after_grading, \* config cleanup.delete_repos_after_grading
    github_cloner,         \* self.github_cloner: the child service, or None
    python_analyzer,       \* self.python_analyzer: the child service, or None
    mgr_pc,                \* position of process: "idle", "call", "parallel",
                           \* "sequential", "summary", "returned", "raised"
    tasks,                 \* one grade_single_repository call per Ready record
    grades,                \* local grades of process
    output,                \* the dictionary process returned
    \* analyze calls running at once on one PythonAnalyzerService
    threads                \* the locals of each running call

calc_vars == <<file_details, results>>
cfg_vars  == <<line_threshold, exclude_comments, exclude_blank_lines,
               exclude_docstrings, file_extensions, exclude_patterns>>
lc_vars   == <<content, lc_pc, lines, idx, counted, in_docstring,
               docstring_delimiter, lc_result>>
fs_vars   == <<repo_files, unreadable>>
an_vars   == <<repository_path, walked, counted_files, raised, previous>>
mgr_vars  == <<email_records, max_workers, delete_repos_after_grading,
               github_cloner, python_analyzer, mgr_pc, tasks, grades, output>>
th_vars   == <<threads>>
vars      == <<cfg_vars, calc_vars, lc_vars, fs_vars, an_vars, mgr_vars,
               th_vars>>

\* ------------------------------------------------------------------ bounds
MaxFiles   == 3   \* entries in a list handed to calculate_grade
MaxLines   == 3   \* largest line_count of such an entry
MaxContent == 4   \* symbols in the text of a file given to count_lines
MaxTree    == 2   \* files in a repository directory
MaxDocLines == 4  \* lines of a file built from whole lines
MaxFlagLines == 4 \* lines of a file scanned under every flag setting
MaxRecords == 3   \* email records in one batch
MaxWorkers == 2   \* threads of the pool when process runs in parallel

None == "None"

\* ------------------------------------------------------------ small helpers
\* round(num / den, 0) as Python rounds an exactly representable value:
\* to the nearest integer, ties to the even one.  den > 0, num >= 0.
\* (A tie of hundredths needs total_lines to be a multiple of 32.)
RoundHalfEven(num, den) ==
    LET q == num \div den
        r == num % den
    IN  IF 2 * r < den THEN q
        ELSE IF 2 * r > den THEN q + 1
        ELSE IF q % 2 = 0 THEN q ELSE q + 1

\* ------------------------------------------------------- GradingCalculator
NoResult == [status |-> None]

\* GradeStep with the comparison >= in place of >
GradeStepAtLeast(acc, file_detail, threshold) ==
    LET line_count == file_detail.line_count
    IN  IF line_count >= threshold
        THEN [total_lines |-> acc.total_lines + line_count,
              lines_above_threshold |-> acc.lines_above_threshold + line_count,
              file_details |-> Append(acc.file_details,
                  [file_detail EXCEPT !.above_threshold = TRUE])]
        ELSE [total_lines |-> acc.total_lines + line_count,
              lines_above_threshold |-> acc.lines_above_threshold,
              file_details |-> Append(acc.file_details,
                  [file_detail EXCEPT !.above_threshold = FALSE])]

\* GradeStep attributing the excess over the threshold, not the line count
GradeStepExcess(acc, file_detail, threshold) ==
    LET line_count == file_detail.line_count
    IN  IF line_count > threshold
        THEN [total_lines |-> acc.total_lines + line_count,
              lines_above_threshold |->
                  acc.lines_above_threshold + (line_count - threshold),
              file_details |-> Append(acc.file_details,
                  [file_detail EXCEPT !.above_threshold = TRUE])]
        ELSE [total_lines |-> acc.total_lines + line_count,
              lines_above_threshold |-> acc.lines_above_threshold,
              file_details |-> Append(acc.file_details,
                  [file_detail EXCEPT !.above_threshold = FALSE])]

\* GradeStep putting each entry in front of the entries done so far
GradeStepPrepending(acc, file_detail, threshold) ==
    LET line_count == file_detail.line_count
    IN  IF line_count > threshold
        THEN [total_lines |-> acc.total_lines + line_count,
              lines_above_threshold |-> acc.lines_above_threshold + line_count,
              file_details |-> <<[file_detail EXCEPT !.above_threshold = TRUE]>>
                                   \o acc.file_details]
        ELSE [total_lines |-> acc.total_lines + line_count,
              lines_above_threshold |-> acc.lines_above_threshold,
              file_details |-> <<[file_detail EXCEPT !.above_threshold = FALSE]>>
                                   \o acc.file_details]

\* the body of the for loop of calculate_grade for one entry; acc holds the
\* locals total_lines and lines_above_threshold and the entries done so far
GradeStep(acc, file_detail, threshold) ==
    LET line_count == file_detail.line_count
    IN  IF line_count > threshold
        THEN [total_lines |-> acc.total_lines + line_count,
              lines_above_threshold |-> acc.lines_above_threshold + line_count,
              file_details |-> Append(acc.file_details,
                  [file_detail EXCEPT !.above_threshold = TRUE])]
        ELSE [total_lines |-> acc.total_lines + line_count,
              lines_above_threshold |-> acc.lines_above_threshold,
              file_details |-> Append(acc.file_details,
                  [file_detail EXCEPT !.above_threshold = FALSE])]

\* the for loop of calculate_grade from entry i on
RECURSIVE GradeLoop(_, _, _, _)
GradeLoop(details, threshold, i, acc) ==
    IF i > Len(details) THEN acc
    ELSE GradeLoop(details, threshold, i + 1,
                   GradeStep(acc, details[i], threshold))

\* GradeOf cutting the third decimal off instead of rounding
GradeOfTruncated(lines_above_threshold, total_lines) ==
    IF total_lines > 0
    THEN (lines_above_threshold * 10000) \div total_lines
    ELSE 0

\* grade = (lines_above_threshold / total_lines) * 100, then round(grade, 2),
\* in hundredths
GradeOf(lines_above_threshold, total_lines) ==
    IF total_lines > 0
    THEN RoundHalfEven(lines_above_threshold * 10000, total_lines)
    ELSE 0

\* calculate_grade answering a list without counted lines like the empty list
calculate_grade_EmptyWhenNoLines(details, threshold) ==
    LET acc == GradeLoop(details, threshold, 1,
                   [total_lines |-> 0, lines_above_threshold |-> 0,
                    file_details |-> <<>>])
    IN  IF acc.total_lines = 0
        THEN [total_files |-> 0, total_lines |-> 0, lines_above_150 |-> 0,
              grade |-> 0, file_details |-> <<>>, status |-> "Success"]
        ELSE [total_files |-> Len(details),
              total_lines |-> acc.total_lines,
              lines_above_150 |-> acc.lines_above_threshold,
              grade |-> GradeOf(acc.lines_above_threshold, acc.total_lines),
              file_details |-> acc.file_details,
              status |-> "Success"]

\* calculate_grade reporting a failure when no line was counted
calculate_grade_FailedWhenNoLines(details, threshold) ==
    LET acc == GradeLoop(details, threshold, 1,
                   [total_lines |-> 0, lines_above_threshold |-> 0,
                    file_details |-> <<>>])
    IN  [total_files |-> Len(details),
         total_lines |-> acc.total_lines,
         lines_above_150 |-> acc.lines_above_threshold,
         grade |-> IF acc.total_lines > 0
                   THEN GradeOf(acc.lines_above_threshold, acc.total_lines)
                   ELSE 0,
         file_details |-> acc.file_details,
         status |-> IF acc.total_lines > 0 THEN "Success" ELSE "Failed"]

calculate_grade(details, threshold) ==
    IF details = <<>>
    THEN [total_files |-> 0, total_lines |-> 0, lines_above_150 |-> 0,
          grade |-> 0, file_details |-> <<>>, status |-> "Success"]
    ELSE LET acc == GradeLoop(details, threshold, 1,
                        [total_lines |-> 0, lines_above_threshold |-> 0,
                         file_details |-> <<>>])
         IN  [total_files |-> Len(details),
              total_lines |-> acc.total_lines,
              lines_above_150 |-> acc.lines_above_threshold,
              grade |-> GradeOf(acc.lines_above_threshold, acc.total_lines),
              file_details |-> acc.file_details,
              status |-> "Success"]

\* ------------------------------------------------------------- LineCounter
DQ == "\"\"\""     \* the delimiter triple_double
SQ == "'''"        \* the delimiter triple_single
NL == "\n"
Symbols == {"x", " ", "#", DQ, SQ, NL}

\* str.split(sep): the pieces between the separators, one more than separators
RECURSIVE SplitFrom(_, _, _, _)
SplitFrom(s, sep, i, piece) ==
    IF i > Len(s) THEN <<piece>>
    ELSE IF s[i] = sep THEN <<piece>> \o SplitFrom(s, sep, i + 1, <<>>)
    ELSE SplitFrom(s, sep, i + 1, Append(piece, s[i]))

\* Split as str.splitlines() would do it: no empty piece after a final separator
SplitLines(s, sep) ==
    LET pieces == SplitFrom(s, sep, 1, <<>>)
    IN  IF pieces[Len(pieces)] = <<>>
        THEN SubSeq(pieces, 1, Len(pieces) - 1)
        ELSE pieces

Split(s, sep) == SplitFrom(s, sep, 1, <<>>)

\* str.strip(): leading and trailing whitespace removed
RECURSIVE LStrip(_)
LStrip(s) == IF s # <<>> /\ s[1] = " " THEN LStrip(Tail(s)) ELSE s

RECURSIVE RStrip(_)
RStrip(s) == IF s # <<>> /\ s[Len(s)] = " "
             THEN RStrip(SubSeq(s, 1, Len(s) - 1)) ELSE s

\* line.strip() leaving the whitespace on the line
NoStrip(s) == s

Strip(s) == RStrip(LStrip(s))

\* `d in stripped`, stripped.count(d), stripped.startswith(d)
Contains(s, d) == \E i \in 1..Len(s) : s[i] = d
Count(s, d) == Cardinality({i \in 1..Len(s) : s[i] = d})
StartsWith(s, d) == s # <<>> /\ s[1] = d

InitialScan == [counted |-> 0, in_docstring |-> FALSE, docstring_delimiter |-> None]

\* OpenDelimiter entering the block however often the delimiter occurs
OpenDelimiterAlwaysOpens(st, stripped, d) ==
    [st EXCEPT !.docstring_delimiter = d, !.in_docstring = TRUE]

\* the not-in_docstring branch for one delimiter kind: the line is skipped,
\* and it opens a block unless the delimiter occurs twice on it
OpenDelimiter(st, stripped, d) ==
    IF Count(stripped, d) >= 2
    THEN [st EXCEPT !.docstring_delimiter = d]
    ELSE [st EXCEPT !.docstring_delimiter = d, !.in_docstring = TRUE]

\* ScanLine taking a hash anywhere on the line for a comment
ScanLineHashAnywhere(st, line, flags) ==
    LET stripped == Strip(line)
    IN  IF flags.exclude_blank_lines /\ stripped = <<>> THEN st
        ELSE IF flags.exclude_docstrings /\ ~st.in_docstring
                /\ Contains(stripped, DQ)
            THEN OpenDelimiter(st, stripped, DQ)
        ELSE IF flags.exclude_docstrings /\ ~st.in_docstring
                /\ Contains(stripped, SQ)
            THEN OpenDelimiter(st, stripped, SQ)
        ELSE IF flags.exclude_docstrings /\ st.in_docstring
            THEN IF Contains(stripped, st.docstring_delimiter)
                 THEN [st EXCEPT !.in_docstring = FALSE,
                                 !.docstring_delimiter = None]
                 ELSE st
        ELSE IF st.in_docstring THEN st
        ELSE IF flags.exclude_comments /\ Contains(stripped, "#") THEN st
        ELSE [st EXCEPT !.counted = @ + 1]

\* ScanLine closing a block on either delimiter
ScanLineAnyCloser(st, line, flags) ==
    LET stripped == Strip(line)
    IN  IF flags.exclude_blank_lines /\ stripped = <<>> THEN st
        ELSE IF flags.exclude_docstrings /\ ~st.in_docstring
                /\ Contains(stripped, DQ)
            THEN OpenDelimiter(st, stripped, DQ)
        ELSE IF flags.exclude_docstrings /\ ~st.in_docstring
                /\ Contains(stripped, SQ)
            THEN OpenDelimiter(st, stripped, SQ)
        ELSE IF flags.exclude_docstrings /\ st.in_docstring
            THEN IF Contains(stripped, DQ) \/ Contains(stripped, SQ)
                 THEN [st EXCEPT !.in_docstring = FALSE,
                                 !.docstring_delimiter = None]
                 ELSE st
        ELSE IF st.in_docstring THEN st
        ELSE IF flags.exclude_comments /\ StartsWith(stripped, "#") THEN st
        ELSE [st EXCEPT !.counted = @ + 1]

\* one iteration of the for loop of _count_effective_lines
ScanLine(st, line, flags) ==
    LET stripped == Strip(line)
    IN  IF flags.exclude_blank_lines /\ stripped = <<>> THEN st
        ELSE IF flags.exclude_docstrings /\ ~st.in_docstring
                /\ Contains(stripped, DQ)
            THEN OpenDelimiter(st, stripped, DQ)
        ELSE IF flags.exclude_docstrings /\ ~st.in_docstring
                /\ Contains(stripped, SQ)
            THEN OpenDelimiter(st, stripped, SQ)
        ELSE IF flags.exclude_docstrings /\ st.in_docstring
            THEN IF Contains(stripped, st.docstring_delimiter)
                 THEN [st EXCEPT !.in_docstring = FALSE,
                                 !.docstring_delimiter = None]
                 ELSE st
        ELSE IF st.in_docstring THEN st
        ELSE IF flags.exclude_comments /\ StartsWith(stripped, "#") THEN st
        ELSE [st EXCEPT !.counted = @ + 1]

RECURSIVE ScanFrom(_, _, _, _)
ScanFrom(ls, i, st, flags) ==
    IF i > Len(ls) THEN st
    ELSE ScanFrom(ls, i + 1, ScanLine(st, ls[i], flags), flags)

\* _count_effective_lines(content)
count_effective_lines(text, flags) ==
    ScanFrom(Split(text, NL), 1, InitialScan, flags).counted

\* count_lines(file_path) as a function of what open/read gives:
\* the text, or a failure (IOError, UnicodeDecodeError)
count_lines(readable, text, flags) ==
    IF ~readable THEN <<0, 0>>
    ELSE <<Len(Split(text, NL)), count_effective_lines(text, flags)>>

\* ------------------------------------------------------------ FileAnalyzer
\* sep.join(parts)
RECURSIVE Join(_, _)
Join(parts, sep) ==
    IF parts = <<>> THEN <<>>
    ELSE IF Len(parts) = 1 THEN parts[1]
    ELSE parts[1] \o <<sep>> \o Join(Tail(parts), sep)

\* file.endswith(ext)
EndsWith(s, ext) ==
    /\ Len(ext) <= Len(s)
    /\ SubSeq(s, Len(s) - Len(ext) + 1, Len(s)) = ext

\* fnmatch(name, pat) from position i of name and j of pat: "*" matches any
\* run of symbols, "/" included; every other symbol matches itself
RECURSIVE MatchFrom(_, _, _, _)
MatchFrom(name, pat, i, j) ==
    IF j > Len(pat) THEN i > Len(name)
    ELSE IF pat[j] \in {"*", "**"}
        THEN \E k \in i..(Len(name) + 1) : MatchFrom(name, pat, k, j + 1)
    ELSE /\ i <= Len(name)
         /\ name[i] = pat[j]
         /\ MatchFrom(name, pat, i + 1, j + 1)

fnmatch(name, pat) == MatchFrom(name, pat, 1, 1)

\* pattern.replace('**/', '')
RECURSIVE DropStarStarSlash(_)
DropStarStarSlash(p) ==
    IF p = <<>> THEN <<>>
    ELSE IF Len(p) >= 2 /\ p[1] = "**" /\ p[2] = "/"
        THEN DropStarStarSlash(SubSeq(p, 3, Len(p)))
    ELSE <<p[1]>> \o DropStarStarSlash(Tail(p))

\* .replace('**', '*')
StarStarToStar(p) == [i \in 1..Len(p) |-> IF p[i] = "**" THEN "*" ELSE p[i]]

\* pattern_normalized
NormalizePattern(pattern) == StarStarToStar(DropStarStarSlash(pattern))

\* the loop over range(len(path_parts)): some partial path matches
SomeSuffixMatches(normalized_path, pattern_normalized) ==
    LET path_parts == Split(normalized_path, "/")
    IN  \E i \in 1..Len(path_parts) :
            fnmatch(Join(SubSeq(path_parts, i, Len(path_parts)), "/"),
                    pattern_normalized)

\* PatternExcludes without the loop over the partial paths
PatternExcludesFullPath(normalized_path, pattern) ==
    fnmatch(normalized_path, NormalizePattern(pattern))

PatternExcludes(normalized_path, pattern) ==
    LET pattern_normalized == NormalizePattern(pattern)
    IN  \/ fnmatch(normalized_path, pattern_normalized)
        \/ SomeSuffixMatches(normalized_path, pattern_normalized)

\* _is_excluded(file_path, repository_path); rel is the relative path as
\* the sequence of its components
is_excluded(rel, patterns) ==
    LET normalized_path == Join(rel, "/")
    IN  \E n \in 1..Len(patterns) : PatternExcludes(normalized_path, patterns[n])

\* the candidate files of a repository, in the order a directory lists them
Universe == <<
    [path |-> << <<"module", ".py">> >>,
     text |-> <<"x", NL, "x", NL, "#", "x">>],
    [path |-> << <<"test_", "module", ".py">> >>,
     text |-> <<"x">>],
    [path |-> << <<"module", "_test", ".py">> >>,
     text |-> <<"x">>],
    [path |-> << <<"setup", ".py">> >>,
     text |-> <<"x", NL, "x">>],
    [path |-> << <<"conftest", ".py">> >>,
     text |-> <<"x">>],
    [path |-> << <<"notes", ".txt">> >>,
     text |-> <<"x">>],
    [path |-> << <<"venv">>, <<"site", ".py">> >>,
     text |-> <<"x", NL, "x">>],
    [path |-> << <<"src">>, <<"module", ".py">> >>,
     text |-> <<DQ, "x", DQ, NL, "#", "x", NL, " ", NL>>],
    [path |-> << <<"src">>, <<"venv">>, <<"lib">>, <<"module", ".py">> >>,
     text |-> <<"x">>],
    [path |-> << <<"src">>, <<"utils">>, <<"test_", "module", ".py">> >>,
     text |-> <<"x">>],
    [path |-> << <<"__pycache__">>, <<"module", ".py">> >>,
     text |-> <<"x">>],
    [path |-> << <<"test_", "utils">>, <<"helper", ".py">> >>,
     text |-> <<SQ, NL, "x", NL, SQ>>]
>>

Candidates == 1..Len(Universe)
PathOf(f) == Universe[f].path

IsPrefix(p, q) == Len(p) <= Len(q) /\ SubSeq(q, 1, Len(p)) = p

\* a set of candidates as the sequence in listing order
RECURSIVE InOrder(_)
InOrder(S) ==
    IF S = {} THEN <<>>
    ELSE LET m == CHOOSE x \in S : \A y \in S : x <= y
         IN  <<m>> \o InOrder(S \ {m})

\* the `files` of os.walk's triple for root
FilesIn(tree, root) ==
    InOrder({f \in tree : Len(PathOf(f)) = Len(root) + 1 /\ IsPrefix(root, PathOf(f))})

\* the `dirs` of os.walk's triple for root, each once, by first occurrence
RECURSIVE Dedup(_, _)
Dedup(s, seen) ==
    IF s = <<>> THEN <<>>
    ELSE IF s[1] \in seen THEN Dedup(Tail(s), seen)
    ELSE <<s[1]>> \o Dedup(Tail(s), seen \cup {s[1]})

DirsIn(tree, root) ==
    LET below == InOrder({f \in tree : Len(PathOf(f)) > Len(root) + 1
                                        /\ IsPrefix(root, PathOf(f))})
    IN  Dedup([k \in 1..Len(below) |-> PathOf(below[k])[Len(root) + 1]], {})

\* the extension test letting every file through
HasExtensionAny(file, extensions) == TRUE

\* any(file.endswith(ext) for ext in self.file_extensions)
HasExtension(file, extensions) ==
    \E e \in 1..Len(extensions) : EndsWith(file, extensions[e])

\* dirs[:] = [d for d in dirs if not self._is_excluded(...)]
KeptDirs(tree, root, patterns) ==
    LET Keep(d) == ~is_excluded(Append(root, d), patterns)
    IN  SelectSeq(DirsIn(tree, root), Keep)

\* the inner for loop over files of one directory
FilesFound(tree, root, extensions, patterns) ==
    LET Take(f) == /\ HasExtension(PathOf(f)[Len(PathOf(f))], extensions)
                   /\ ~is_excluded(PathOf(f), patterns)
    IN  SelectSeq(FilesIn(tree, root), Take)

\* _find_python_files: os.walk top-down from root; the directories listed
\* and the files collected, both in order
RECURSIVE WalkFrom(_, _, _, _)
RECURSIVE WalkDirs(_, _, _, _, _, _)
WalkFrom(tree, root, extensions, patterns) ==
    LET below == WalkDirs(tree, root, KeptDirs(tree, root, patterns), 1,
                          extensions, patterns)
    IN  [walked |-> <<root>> \o below.walked,
         python_files |-> FilesFound(tree, root, extensions, patterns)
                          \o below.python_files]

WalkDirs(tree, root, dirs, k, extensions, patterns) ==
    IF k > Len(dirs) THEN [walked |-> <<>>, python_files |-> <<>>]
    ELSE LET first == WalkFrom(tree, Append(root, dirs[k]), extensions, patterns)
             rest == WalkDirs(tree, root, dirs, k + 1, extensions, patterns)
         IN  [walked |-> first.walked \o rest.walked,
              python_files |-> first.python_files \o rest.python_files]

find_python_files(tree, extensions, patterns) ==
    WalkFrom(tree, <<>>, extensions, patterns)

Paths == {"repo", "plain_file", "missing"}
Exists(path) == path # "missing"      \* os.path.exists
IsDir(path) == path = "repo"          \* os.path.isdir

DoesNotExist == "Repository path does not exist"
NotADirectory == "Repository path is not a directory"

\* the entry analyze_repository appends for one file
FileDetail(f, unread, flags) ==
    [filename |-> Join(PathOf(f), "/"),
     line_count |-> count_lines(f \notin unread, Universe[f].text, flags)[2],
     above_threshold |-> FALSE]

\* analyze_repository without the os.path.isdir check: os.walk of a path that
\* is no directory yields nothing
analyze_repository_NoDirCheck(path, tree, unread, extensions, patterns, flags) ==
    IF ~Exists(path)
    THEN [raised |-> DoesNotExist, file_details |-> <<>>,
          walked |-> <<>>, counted_files |-> <<>>]
    ELSE IF ~IsDir(path)
    THEN [raised |-> None, file_details |-> <<>>,
          walked |-> <<>>, counted_files |-> <<>>]
    ELSE LET found == find_python_files(tree, extensions, patterns)
         IN  [raised |-> None,
              file_details |-> [k \in 1..Len(found.python_files) |->
                  FileDetail(found.python_files[k], unread, flags)],
              walked |-> found.walked,
              counted_files |-> found.python_files]

\* analyze_repository over a count_lines that lets the read error out: the
\* first unreadable file ends the scan
analyze_repository_Propagating(path, tree, unread, extensions, patterns, flags) ==
    IF ~Exists(path)
    THEN [raised |-> DoesNotExist, file_details |-> <<>>,
          walked |-> <<>>, counted_files |-> <<>>]
    ELSE IF ~IsDir(path)
    THEN [raised |-> NotADirectory, file_details |-> <<>>,
          walked |-> <<>>, counted_files |-> <<>>]
    ELSE LET found == find_python_files(tree, extensions, patterns)
         IN  IF \E k \in 1..Len(found.python_files) :
                    found.python_files[k] \in unread
             THEN [raised |-> "IOError", file_details |-> <<>>,
                   walked |-> found.walked,
                   counted_files |-> found.python_files]
             ELSE [raised |-> None,
                   file_details |-> [k \in 1..Len(found.python_files) |->
                       FileDetail(found.python_files[k], unread, flags)],
                   walked |-> found.walked,
                   counted_files |-> found.python_files]

\* analyze_repository(repository_path): what it raises or returns, with the
\* directories it walked and the files it handed to count_lines
analyze_repository(path, tree, unread, extensions, patterns, flags) ==
    IF ~Exists(path)
    THEN [raised |-> DoesNotExist, file_details |-> <<>>,
          walked |-> <<>>, counted_files |-> <<>>]
    ELSE IF ~IsDir(path)
    THEN [raised |-> NotADirectory, file_details |-> <<>>,
          walked |-> <<>>, counted_files |-> <<>>]
    ELSE LET found == find_python_files(tree, extensions, patterns)
         IN  [raised |-> None,
              file_details |-> [k \in 1..Len(found.python_files) |->
                  FileDetail(found.python_files[k], unread, flags)],
              walked |-> found.walked,
              counted_files |-> found.python_files]

\* ----------------------------------------------- PythonAnalyzerService
\* FailedResult without the error key
FailedResultNoError(error) ==
    [total_files |-> 0, total_lines |-> 0, lines_above_150 |-> 0,
     grade |-> 0, file_details |-> <<>>, status |-> "Failed"]

\* the dictionary of the except branch of analyze
FailedResult(error) ==
    [total_files |-> 0, total_lines |-> 0, lines_above_150 |-> 0,
     grade |-> 0, file_details |-> <<>>, status |-> "Failed", error |-> error]

\* analyze(repository_path): the try block and its except branch
analyze(scan, threshold) ==
    IF scan.raised # None THEN FailedResult(scan.raised)
    ELSE calculate_grade(scan.file_details, threshold)

\* ------------------------------------------------------------ the actions
\* the flags with exclude_docstrings read as set whatever the field holds
CurrentFlagsTracking ==
    [exclude_comments |-> exclude_comments,
     exclude_blank_lines |-> exclude_blank_lines,
     exclude_docstrings |-> TRUE]

CurrentFlags == [exclude_comments |-> exclude_comments,
                 exclude_blank_lines |-> exclude_blank_lines,
                 exclude_docstrings |-> exclude_docstrings]

DefaultPatterns == <<
    <<"**", "/", "venv", "/", "**">>,
    <<"**", "/", "__pycache__", "/", "**">>,
    <<"**", "/", "test_", "*", ".py">>,
    <<"**", "/", "*", "_test", ".py">>,
    <<"**", "/", "setup", ".py">>,
    <<"**", "/", "conftest", ".py">> >>

NoCall == [repository_path |-> None, results |-> NoResult]

IdleCalc == file_details = <<>> /\ results = NoResult
IdleCount ==
    /\ content = <<>> /\ lc_pc = "idle" /\ lines = <<>> /\ idx = 0
    /\ counted = 0 /\ in_docstring = FALSE /\ docstring_delimiter = None
    /\ lc_result = None
IdleFs == repo_files = {} /\ unreadable = {}
IdleAnalyze ==
    /\ repository_path = None /\ walked = <<>> /\ counted_files = <<>>
    /\ raised = None
    /\ previous = NoCall
IdleManager ==
    /\ email_records = <<>> /\ max_workers = 1
    /\ delete_repos_after_grading = TRUE /\ mgr_pc = "idle"
    /\ github_cloner = "service" /\ python_analyzer = "service"
    /\ tasks = <<>> /\ grades = <<>> /\ output = None
IdleThreads == threads = <<>>
\* ---- GradingCalculator on its own
SeqsUpTo(S, n) == UNION {[1..k -> S] : k \in 0..n}

Entries == [filename : {<<"module", ".py">>}, line_count : 0..MaxLines,
            above_threshold : BOOLEAN]

InitGrade ==
    /\ line_threshold \in -1..(MaxLines + 1)
    /\ exclude_comments = TRUE /\ exclude_blank_lines = TRUE
    /\ exclude_docstrings = TRUE
    /\ file_extensions = << <<".py">> >>
    /\ exclude_patterns = DefaultPatterns
    /\ file_details \in SeqsUpTo(Entries, MaxFiles)
    /\ results = NoResult
    /\ IdleCount /\ IdleFs /\ IdleAnalyze /\ IdleManager /\ IdleThreads

\* results = calculate_grade(file_details); the entries of the list are
\* the caller's objects, so the flags written are seen in file_details
CalculateGrade ==
    /\ results' = calculate_grade(file_details, line_threshold)
    /\ file_details' = results'.file_details
    /\ UNCHANGED <<cfg_vars, mgr_vars, th_vars, lc_vars, fs_vars, an_vars>>

NextGrade == CalculateGrade
SpecGrade == InitGrade /\ [][NextGrade]_vars

\* ---- LineCounter.count_lines on one file
InitCount ==
    /\ line_threshold = 150
    /\ exclude_comments \in BOOLEAN
    /\ exclude_blank_lines \in BOOLEAN
    /\ exclude_docstrings \in BOOLEAN
    /\ file_extensions = << <<".py">> >>
    /\ exclude_patterns = DefaultPatterns
    /\ content \in SeqsUpTo(Symbols, MaxContent)
    /\ lc_pc = "start" /\ lines = <<>> /\ idx = 0
    /\ counted = 0 /\ in_docstring = FALSE /\ docstring_delimiter = None
    /\ lc_result = None
    /\ IdleCalc /\ IdleFs /\ IdleAnalyze /\ IdleManager /\ IdleThreads

\* open/read succeeds: content.split('\n') and the locals of the scan
ReadFile ==
    /\ lc_pc = "start"
    /\ lines' = Split(content, NL)
    /\ idx' = 1
    /\ counted' = InitialScan.counted
    /\ in_docstring' = InitialScan.in_docstring
    /\ docstring_delimiter' = InitialScan.docstring_delimiter
    /\ lc_pc' = "scan"
    /\ UNCHANGED <<content, lc_result, cfg_vars, mgr_vars, th_vars, calc_vars, fs_vars, an_vars>>

\* open/read raises IOError or UnicodeDecodeError: return 0, 0
ReadFails ==
    /\ lc_pc = "start"
    /\ lc_result' = count_lines(FALSE, content, CurrentFlags)
    /\ lc_pc' = "done"
    /\ UNCHANGED <<content, lines, idx, counted, in_docstring,
                   docstring_delimiter, cfg_vars, mgr_vars, th_vars, calc_vars, fs_vars, an_vars>>

\* one iteration of the for loop
ScanStep ==
    /\ lc_pc = "scan"
    /\ idx <= Len(lines)
    /\ LET st == ScanLine([counted |-> counted, in_docstring |-> in_docstring,
                           docstring_delimiter |-> docstring_delimiter],
                          lines[idx], CurrentFlags)
       IN  /\ counted' = st.counted
           /\ in_docstring' = st.in_docstring
           /\ docstring_delimiter' = st.docstring_delimiter
    /\ idx' = idx + 1
    /\ UNCHANGED <<content, lines, lc_pc, lc_result, cfg_vars, mgr_vars, th_vars, calc_vars,
                   fs_vars, an_vars>>

\* return total_raw_lines, counted_lines
ReturnCount ==
    /\ lc_pc = "scan"
    /\ idx > Len(lines)
    /\ lc_result' = <<Len(lines), counted>>
    /\ lc_pc' = "done"
    /\ UNCHANGED <<content, lines, idx, counted, in_docstring,
                   docstring_delimiter, cfg_vars, mgr_vars, th_vars, calc_vars, fs_vars, an_vars>>

NextCount == ReadFile \/ ReadFails \/ ScanStep \/ ReturnCount
SpecCount == InitCount /\ [][NextCount]_vars

\* ---- PythonAnalyzerService.analyze on a repository directory
PatternConfigs == {
    <<>>,
    DefaultPatterns,
    <<DefaultPatterns[1], DefaultPatterns[2]>>,
    <<DefaultPatterns[3], DefaultPatterns[4], DefaultPatterns[5],
      DefaultPatterns[6]>> }

InitAnalyze ==
    /\ line_threshold \in {1, 150}
    /\ exclude_comments = TRUE /\ exclude_blank_lines = TRUE
    /\ exclude_docstrings = TRUE
    /\ file_extensions = << <<".py">> >>
    /\ exclude_patterns \in PatternConfigs
    /\ repo_files \in {S \in SUBSET Candidates : Cardinality(S) <= MaxTree}
    /\ unreadable \in SUBSET repo_files
    /\ IdleCalc /\ IdleCount /\ IdleAnalyze /\ IdleManager /\ IdleThreads

\* Analyze with the entries kept on the instance from one call to the next
AnalyzeAccumulating(path) ==
    \E scan \in {analyze_repository(path, repo_files, unreadable,
                    file_extensions, exclude_patterns, CurrentFlags)} :
        /\ repository_path' = path
        /\ walked' = scan.walked
        /\ counted_files' = scan.counted_files
        /\ raised' = scan.raised
        /\ results' = analyze([scan EXCEPT !.file_details = file_details \o @],
                              line_threshold)
        /\ file_details' = results'.file_details
        /\ previous' = [repository_path |-> repository_path, results |-> results]
        /\ UNCHANGED <<cfg_vars, mgr_vars, th_vars, lc_vars, fs_vars>>

\* one call of analyze(path) on the service; the scan is evaluated once
Analyze(path) ==
    \E scan \in {analyze_repository(path, repo_files, unreadable,
                    file_extensions, exclude_patterns, CurrentFlags)} :
        /\ repository_path' = path
        /\ walked' = scan.walked
        /\ counted_files' = scan.counted_files
        /\ raised' = scan.raised
        /\ results' = analyze(scan, line_threshold)
        /\ file_details' = results'.file_details
        /\ previous' = [repository_path |-> repository_path, results |-> results]
        /\ UNCHANGED <<cfg_vars, mgr_vars, th_vars, lc_vars, fs_vars>>

NextAnalyze == \E path \in Paths : Analyze(path)
SpecAnalyze == InitAnalyze /\ [][NextAnalyze]_vars

\* ---- LineCounter on files built from whole lines
\* the lines a file is built from: code, blank, comment, and lines with
\* one, two or both kinds of triple-quote delimiter
LineShapes == {<<"x">>, <<" ">>, <<"#", "x">>, <<"x", DQ>>, <<SQ>>,
               <<DQ, "x", DQ>>, <<"#", SQ, SQ>>, <<SQ, DQ>>}

InitDocstring ==
    /\ line_threshold = 150
    /\ exclude_comments \in BOOLEAN
    /\ exclude_blank_lines \in BOOLEAN
    /\ exclude_docstrings = TRUE
    /\ file_extensions = << <<".py">> >>
    /\ exclude_patterns = DefaultPatterns
    /\ \E ls \in SeqsUpTo(LineShapes, MaxDocLines) : content = Join(ls, NL)
    /\ lc_pc = "start" /\ lines = <<>> /\ idx = 0
    /\ counted = 0 /\ in_docstring = FALSE /\ docstring_delimiter = None
    /\ lc_result = None
    /\ IdleCalc /\ IdleFs /\ IdleAnalyze /\ IdleManager /\ IdleThreads

SpecDocstring == InitDocstring /\ [][NextCount]_vars

\* ---- LineCounter under every setting of the three flags
\* the lines a file is built from: code, empty, whitespace, comment after
\* whitespace, code with an inline comment, lines with a delimiter
FlagLineShapes == {<<"x">>, <<>>, <<" ">>, <<" ", "#", "x">>, <<"x", "#", "x">>,
                   <<DQ>>, <<"x", SQ>>}

InitFlags ==
    /\ line_threshold = 150
    /\ exclude_comments \in BOOLEAN
    /\ exclude_blank_lines \in BOOLEAN
    /\ exclude_docstrings \in BOOLEAN
    /\ file_extensions = << <<".py">> >>
    /\ exclude_patterns = DefaultPatterns
    /\ \E ls \in SeqsUpTo(FlagLineShapes, MaxFlagLines) : content = Join(ls, NL)
    /\ lc_pc = "start" /\ lines = <<>> /\ idx = 0
    /\ counted = 0 /\ in_docstring = FALSE /\ docstring_delimiter = None
    /\ lc_result = None
    /\ IdleCalc /\ IdleFs /\ IdleAnalyze /\ IdleManager /\ IdleThreads

SpecFlags == InitFlags /\ [][NextCount]_vars

\* ======================================================== the grade manager
\* ---- GitHubClonerService (github_cloner/service.py)
\* A repository URL is a sequence of symbols: scheme and host as one symbol,
\* an owner name as one symbol, "/", and the characters of the repository name.
GitHub      == "https://github.com/"
GitHubPlain == "http://github.com/"
DotGit      == <<".", "g", "i", "t">>

validate_url(url) == url # <<>> /\ url[1] \in {GitHub, GitHubPlain}

normalize_url(url) == IF EndsWith(url, DotGit) THEN url ELSE url \o DotGit

\* str.rstrip(chars): drops every trailing character that is in chars
RECURSIVE RStripChars(_, _)
RStripChars(s, chars) ==
    IF s # <<>> /\ s[Len(s)] \in chars
    THEN RStripChars(SubSeq(s, 1, Len(s) - 1), chars) ELSE s

\* s.split('/')[-1]: what follows the last slash (the host symbol ends in one)
RECURSIVE LastComponent(_)
LastComponent(s) ==
    IF s = <<>> \/ s[Len(s)] \in {"/", GitHub, GitHubPlain}
    THEN <<>>
    ELSE Append(LastComponent(SubSeq(s, 1, Len(s) - 1)), s[Len(s)])

\* repo_url.rstrip('/').rstrip('.git').split('/')[-1]
repo_name(url) ==
    LastComponent(RStripChars(RStripChars(url, {"/"}), {".", "g", "i", "t"}))

\* os.path.join(temp_dir, repo_name); temp_dir is the same for every call
destination_dir(url) == repo_name(normalize_url(url))

\* clone_repository(repo_url); git is what the git subprocess answers
clone_repository(repo_url, git) ==
    IF ~validate_url(repo_url)
    THEN [clone_path |-> None, status |-> "Failed", error |-> "Invalid URL format"]
    ELSE IF git = "ok"
         THEN [clone_path |-> destination_dir(repo_url), status |-> "Success",
               error |-> None]
         ELSE [clone_path |-> None, status |-> "Failed", error |-> "git"]

\* ---- GradeManagerService (grade_manager/service.py)
\* The candidate email records.  git and analysis say what the clone and the
\* analyze call of the record's repository answer; grade is the grade the
\* analysis returns, in thousandths (the manager rounds it to hundredths).
Alice == <<GitHub, "alice", "/", "r", "e", "p", "o">>
Bob   == <<GitHub, "bob", "/", "r", "e", "p", "o">>
Dig   == <<GitHub, "alice", "/", "d", "i", "g">>
Digit == <<GitHub, "alice", "/", "d", "i", "g", "i", "t">>
Tool  == <<GitHubPlain, "carol", "/", "t", "o", "o", "l", ".", "g", "i", "t">>
Ftp   == <<"ftp://example.org/", "r">>

Submissions == <<
    [email_id |-> "a1", status |-> "Ready", repo_url |-> Alice,
     git |-> "ok", analysis |-> "Success", grade |-> 66666],
    [email_id |-> "b2", status |-> "Ready", repo_url |-> Bob,
     git |-> "ok", analysis |-> "Failed", grade |-> 0],
    [email_id |-> "c3", status |-> "Ready", repo_url |-> Dig,
     git |-> "ok", analysis |-> "raises", grade |-> 0],
    [email_id |-> "d4", status |-> "Ready", repo_url |-> Digit,
     git |-> "fail", analysis |-> "Success", grade |-> 0],
    [email_id |-> "e5", status |-> "Ready", repo_url |-> <<>>,
     git |-> "ok", analysis |-> "Success", grade |-> 0],
    [email_id |-> None, status |-> "Ready", repo_url |-> Tool,
     git |-> "ok", analysis |-> "Success", grade |-> 100000],
    [email_id |-> "g7", status |-> "Pending", repo_url |-> Alice,
     git |-> "ok", analysis |-> "Success", grade |-> 50004],
    [email_id |-> "h8", status |-> "Ready", repo_url |-> Ftp,
     git |-> "ok", analysis |-> "Success", grade |-> 0] >>

\* [r for r in email_records if r.get('status') == 'Ready'], without the filter
ReadyRecordsUnfiltered(records) == records

\* [r for r in email_records if r.get('status') == 'Ready']
ReadyRecords(records) == SelectSeq(records, LAMBDA r : r.status = "Ready")

\* the result dictionary grade_single_repository starts from
FailedGrade(email_id, error) ==
    [email_id |-> email_id, grade |-> 0, status |-> "Failed", error |-> error]

NewTask(record) ==
    [record |-> record, pc |-> "queued", clone_path |-> None,
     clone_exists |-> FALSE, result |-> None, events |-> <<>>]

\* the calls of grade_single_repository that have started and not returned
Running == {i \in 1..Len(tasks) : tasks[i].pc \in {"clone", "analyze", "finally"}}

\* process up to the choice between the thread pool and the loop
Process ==
    /\ mgr_pc = "call"
    /\ IF email_records = <<>>
       THEN /\ output' = [grades |-> <<>>, output_file |-> None,
                          graded_count |-> 0, failed_count |-> 0]
            /\ mgr_pc' = "returned"
            /\ UNCHANGED <<tasks, grades>>
       ELSE /\ tasks' = [i \in 1..Len(ReadyRecords(email_records)) |->
                            NewTask(ReadyRecords(email_records)[i])]
            /\ grades' = <<>>
            /\ mgr_pc' = IF max_workers > 1 /\ Len(ReadyRecords(email_records)) > 1
                         THEN "parallel" ELSE "sequential"
            /\ UNCHANGED output
    /\ UNCHANGED <<email_records, max_workers, delete_repos_after_grading,
                   github_cloner, python_analyzer>>
    /\ UNCHANGED <<cfg_vars, calc_vars, lc_vars, fs_vars, an_vars, th_vars>>

\* a step of task i that leaves everything but tasks alone
TaskStep(i, task) ==
    /\ tasks' = [tasks EXCEPT ![i] = task]
    /\ UNCHANGED <<email_records, max_workers, delete_repos_after_grading,
                   github_cloner, python_analyzer,
                   mgr_pc, grades, output>>
    /\ UNCHANGED <<cfg_vars, calc_vars, lc_vars, fs_vars, an_vars, th_vars>>

\* shutil.rmtree(path): the clone that a call holds in that directory is gone
Removed(ts, path) ==
    [k \in 1..Len(ts) |->
        IF ts[k].clone_exists /\ ts[k].clone_path = path
        THEN [ts[k] EXCEPT !.clone_exists = FALSE]
        ELSE ts[k]]

\* a step of task i that removes the directory path
TaskStepRemoving(i, task, path) ==
    /\ tasks' = [Removed(tasks, path) EXCEPT ![i] = task]
    /\ UNCHANGED <<email_records, max_workers, delete_repos_after_grading,
                   github_cloner, python_analyzer,
                   mgr_pc, grades, output>>
    /\ UNCHANGED <<cfg_vars, calc_vars, lc_vars, fs_vars, an_vars, th_vars>>

\* a worker of the pool is free, or the loop has reached record i
MayBegin(i) ==
    \/ mgr_pc = "parallel" /\ Cardinality(Running) < max_workers
    \/ mgr_pc = "sequential" /\ i = Len(grades) + 1

\* grade_single_repository up to the try statement
Begin(i) ==
    /\ tasks[i].pc = "queued"
    /\ MayBegin(i)
    /\ LET record == tasks[i].record
       IN  IF record.email_id = None
           THEN TaskStep(i, [tasks[i] EXCEPT !.pc = "raised",
                                             !.result = "TypeError"])
           ELSE IF record.repo_url = <<>>
           THEN TaskStep(i, [tasks[i] EXCEPT !.pc = "done",
                    !.result = FailedGrade(record.email_id, "Missing repo_url")])
           ELSE IF github_cloner = None
           THEN TaskStep(i, [tasks[i] EXCEPT !.pc = "done",
                    !.result = FailedGrade(record.email_id,
                                   "GitHub Cloner service not available")])
           ELSE IF python_analyzer = None
           THEN TaskStep(i, [tasks[i] EXCEPT !.pc = "done",
                    !.result = FailedGrade(record.email_id,
                                   "Python Analyzer service not available")])
           ELSE TaskStep(i, [tasks[i] EXCEPT !.pc = "clone",
                    !.result = FailedGrade(record.email_id, None)])

\* step 1 of the try statement: the clone
Clone(i) ==
    /\ tasks[i].pc = "clone"
    /\ LET clone_result == clone_repository(tasks[i].record.repo_url,
                                            tasks[i].record.git)
       IN  IF ~validate_url(tasks[i].record.repo_url)
           THEN TaskStep(i, [tasks[i] EXCEPT !.pc = "finally",
                    !.result.error = "Clone failed",
                    !.events = Append(@, "clone failed")])
           ELSE IF clone_result.status # "Success"
           THEN TaskStepRemoving(i, [tasks[i] EXCEPT !.pc = "finally",
                        !.result.error = "Clone failed",
                        !.events = Append(@, "clone failed")],
                    destination_dir(tasks[i].record.repo_url))
           ELSE TaskStep(i, [tasks[i] EXCEPT !.pc = "analyze",
                    !.clone_path = clone_result.clone_path,
                    !.clone_exists = TRUE,
                    !.events = Append(@, "cloned")])

\* an analysis step that takes the grade of whatever analyze returned
AnalyzeCloneUnchecked(i) ==
    /\ tasks[i].pc = "analyze"
    /\ IF tasks[i].record.analysis = "raises"
       THEN TaskStep(i, [tasks[i] EXCEPT !.pc = "finally",
                !.result.error = "exception",
                !.events = Append(@, "analysis raised")])
       ELSE TaskStep(i, [tasks[i] EXCEPT !.pc = "finally",
                !.result.grade = RoundHalfEven(tasks[i].record.grade, 10),
                !.result.status = "Ready",
                !.result.error = None,
                !.events = Append(@, "analysed")])

\* step 2 of the try statement: the analysis, and the except clause
AnalyzeClone(i) ==
    /\ tasks[i].pc = "analyze"
    /\ LET analysis == tasks[i].record.analysis
       IN  IF analysis = "raises"
           THEN TaskStep(i, [tasks[i] EXCEPT !.pc = "finally",
                    !.result.error = "exception",
                    !.events = Append(@, "analysis raised")])
           ELSE IF analysis = "Failed"
           THEN TaskStep(i, [tasks[i] EXCEPT !.pc = "finally",
                    !.result.error = "Analysis failed",
                    !.events = Append(@, "analysis failed")])
           ELSE TaskStep(i, [tasks[i] EXCEPT !.pc = "finally",
                    !.result.grade = RoundHalfEven(tasks[i].record.grade, 10),
                    !.result.status = "Ready",
                    !.result.error = None,
                    !.events = Append(@, "analysed")])

\* the cleanup written at the end of the try block, reached on success only
CleanupOnSuccessOnly(i) ==
    /\ tasks[i].pc = "finally"
    /\ IF tasks[i].result.status = "Ready" /\ delete_repos_after_grading
       THEN TaskStepRemoving(i, [tasks[i] EXCEPT !.pc = "done",
                    !.clone_exists = FALSE,
                    !.events = Append(Append(@, "cleanup"), "return")],
                tasks[i].clone_path)
       ELSE TaskStep(i, [tasks[i] EXCEPT !.pc = "done",
                !.events = Append(@, "return")])

\* the finally clause and the return
Cleanup(i) ==
    /\ tasks[i].pc = "finally"
    /\ IF tasks[i].clone_path # None /\ delete_repos_after_grading
       THEN TaskStepRemoving(i, [tasks[i] EXCEPT !.pc = "done",
                    !.clone_exists = FALSE,
                    !.events = Append(Append(@, "cleanup"), "return")],
                tasks[i].clone_path)
       ELSE TaskStep(i, [tasks[i] EXCEPT !.pc = "done",
                !.events = Append(@, "return")])

\* a step of the collecting loop that changes tasks and grades
CollectStep(i, grade) ==
    /\ tasks' = [tasks EXCEPT ![i].pc = "collected"]
    /\ grades' = Append(grades, grade)
    /\ UNCHANGED <<email_records, max_workers, delete_repos_after_grading,
                   github_cloner, python_analyzer,
                   mgr_pc, output>>
    /\ UNCHANGED <<cfg_vars, calc_vars, lc_vars, fs_vars, an_vars, th_vars>>

\* grades.append(result), of the loop or of as_completed
Collect(i) ==
    /\ mgr_pc \in {"parallel", "sequential"}
    /\ tasks[i].pc = "done"
    /\ CollectStep(i, tasks[i].result)

\* the except clause around future.result()
CollectRaised(i) ==
    /\ mgr_pc = "parallel"
    /\ tasks[i].pc = "raised"
    /\ CollectStep(i, FailedGrade(tasks[i].record.email_id, tasks[i].result))

\* the loop has no except clause: the exception leaves process
Propagate(i) ==
    /\ mgr_pc = "sequential"
    /\ tasks[i].pc = "raised"
    /\ mgr_pc' = "raised"
    /\ UNCHANGED <<email_records, max_workers, delete_repos_after_grading,
                   github_cloner, python_analyzer,
                   tasks, grades, output>>
    /\ UNCHANGED <<cfg_vars, calc_vars, lc_vars, fs_vars, an_vars, th_vars>>

CountReady(gs) == Cardinality({k \in 1..Len(gs) : gs[k].status = "Ready"})

\* the summary, the Excel file (written or not) and the return
Return ==
    /\ mgr_pc \in {"parallel", "sequential"}
    /\ \A i \in 1..Len(tasks) : tasks[i].pc = "collected"
    /\ \E output_file \in {None, "file_2_3.xlsx"} :
           output' = [grades |-> grades, output_file |-> output_file,
                      graded_count |-> CountReady(grades),
                      failed_count |-> Len(grades) - CountReady(grades)]
    /\ mgr_pc' = "returned"
    /\ UNCHANGED <<email_records, max_workers, delete_repos_after_grading,
                   github_cloner, python_analyzer,
                   tasks, grades>>
    /\ UNCHANGED <<cfg_vars, calc_vars, lc_vars, fs_vars, an_vars, th_vars>>

\* the records of one batch: candidates in their order, MaxRecords at most
Batches ==
    {b \in SeqsUpTo(1..Len(Submissions), MaxRecords) :
        \A k \in 1..(Len(b) - 1) : b[k] < b[k + 1]}

InitManager ==
    /\ line_threshold = 150
    /\ exclude_comments = TRUE /\ exclude_blank_lines = TRUE
    /\ exclude_docstrings = TRUE
    /\ file_extensions = << <<".py">> >>
    /\ exclude_patterns = DefaultPatterns
    /\ IdleCalc /\ IdleCount /\ IdleFs /\ IdleAnalyze /\ IdleThreads
    /\ \E b \in Batches : email_records = [k \in 1..Len(b) |-> Submissions[b[k]]]
    /\ max_workers \in {1, MaxWorkers}
    /\ delete_repos_after_grading \in BOOLEAN
    /\ github_cloner \in {None, "service"}
    /\ python_analyzer \in {None, "service"}
    /\ mgr_pc = "call"
    /\ tasks = <<>> /\ grades = <<>> /\ output = None

NextManager ==
    \/ Process
    \/ \E i \in 1..Len(tasks) : Begin(i)
    \/ \E i \in 1..Len(tasks) : Clone(i)
    \/ \E i \in 1..Len(tasks) : AnalyzeClone(i)
    \/ \E i \in 1..Len(tasks) : Cleanup(i)
    \/ \E i \in 1..Len(tasks) : Collect(i)
    \/ \E i \in 1..Len(tasks) : CollectRaised(i)
    \/ \E i \in 1..Len(tasks) : Propagate(i)
    \/ Return

SpecManager == InitManager /\ [][NextManager]_vars

\* ============================== analyze calls at once on one shared service
\* Each call has its own locals; the constructor-time fields are the only
\* state the calls share.  The directories the calls are given:
Directories == {{}, {1, 8}, {4, 12}, {8, 12}}

NewThread(tree) ==
    [tree |-> tree, pc |-> "call", python_files |-> <<>>, k |-> 0,
     file_details |-> <<>>, lines |-> <<>>, idx |-> 0,
     counted |-> 0, in_docstring |-> FALSE, docstring_delimiter |-> None,
     result |-> NoResult]

\* a step of call t that leaves everything but its locals alone
ThreadStep(t, thread) ==
    /\ threads' = [threads EXCEPT ![t] = thread]
    /\ UNCHANGED <<cfg_vars, calc_vars, lc_vars, fs_vars, an_vars, mgr_vars>>

\* analyze_repository up to the loop over the files found
ThreadWalk(t) ==
    /\ threads[t].pc = "call"
    /\ ThreadStep(t, [threads[t] EXCEPT
           !.python_files = find_python_files(threads[t].tree, file_extensions,
                                              exclude_patterns).python_files,
           !.k = 1,
           !.pc = "file"])

\* count_lines: read and split the next file
ThreadOpen(t) ==
    /\ threads[t].pc = "file"
    /\ threads[t].k <= Len(threads[t].python_files)
    /\ ThreadStep(t, [threads[t] EXCEPT
           !.lines = Split(Universe[threads[t].python_files[threads[t].k]].text, NL),
           !.idx = 1,
           !.counted = InitialScan.counted,
           !.in_docstring = InitialScan.in_docstring,
           !.docstring_delimiter = InitialScan.docstring_delimiter,
           !.pc = "scan"])

\* one iteration with the scan state kept on the shared LineCounter (held
\* here by the locals of call 1) in place of the locals of the call
ThreadScanOnInstance(t) ==
    /\ threads[t].pc = "scan"
    /\ threads[t].idx <= Len(threads[t].lines)
    /\ LET st == ScanLine([counted |-> threads[1].counted,
                           in_docstring |-> threads[1].in_docstring,
                           docstring_delimiter |-> threads[1].docstring_delimiter],
                          threads[t].lines[threads[t].idx], CurrentFlags)
           shared == [threads EXCEPT ![1].counted = st.counted,
                                     ![1].in_docstring = st.in_docstring,
                                     ![1].docstring_delimiter = st.docstring_delimiter]
       IN  /\ threads' = [shared EXCEPT ![t].idx = @ + 1,
                                        ![t].counted = st.counted]
           /\ UNCHANGED <<cfg_vars, calc_vars, lc_vars, fs_vars, an_vars, mgr_vars>>

\* one iteration of the loop of _count_effective_lines
ThreadScan(t) ==
    /\ threads[t].pc = "scan"
    /\ threads[t].idx <= Len(threads[t].lines)
    /\ LET st == ScanLine([counted |-> threads[t].counted,
                           in_docstring |-> threads[t].in_docstring,
                           docstring_delimiter |-> threads[t].docstring_delimiter],
                          threads[t].lines[threads[t].idx], CurrentFlags)
       IN  ThreadStep(t, [threads[t] EXCEPT
               !.counted = st.counted,
               !.in_docstring = st.in_docstring,
               !.docstring_delimiter = st.docstring_delimiter,
               !.idx = @ + 1])

\* count_lines returns; analyze_repository appends the entry of the file
ThreadCounted(t) ==
    /\ threads[t].pc = "scan"
    /\ threads[t].idx > Len(threads[t].lines)
    /\ ThreadStep(t, [threads[t] EXCEPT
           !.file_details = Append(@,
               [filename |-> Join(PathOf(threads[t].python_files[threads[t].k]), "/"),
                line_count |-> threads[t].counted,
                above_threshold |-> FALSE]),
           !.k = @ + 1,
           !.pc = "file"])

\* calculate_grade on the list of the call, and the return of analyze
ThreadGrade(t) ==
    /\ threads[t].pc = "file"
    /\ threads[t].k > Len(threads[t].python_files)
    /\ ThreadStep(t, [threads[t] EXCEPT
           !.result = calculate_grade(threads[t].file_details, line_threshold),
           !.pc = "done"])

InitThreads ==
    /\ line_threshold \in {1, 150}
    /\ exclude_comments \in BOOLEAN /\ exclude_blank_lines \in BOOLEAN
    /\ exclude_docstrings \in BOOLEAN
    /\ file_extensions = << <<".py">> >>
    /\ exclude_patterns \in {<<>>, DefaultPatterns}
    /\ IdleCalc /\ IdleCount /\ IdleFs /\ IdleAnalyze /\ IdleManager
    /\ \E first, second \in Directories :
           /\ first # second
           /\ threads = <<NewThread(first), NewThread(second)>>

NextThreads ==
    \/ \E t \in 1..Len(threads) : ThreadWalk(t)
    \/ \E t \in 1..Len(threads) : ThreadOpen(t)
    \/ \E t \in 1..Len(threads) : ThreadScan(t)
    \/ \E t \in 1..Len(threads) : ThreadCounted(t)
    \/ \E t \in 1..Len(threads) : ThreadGrade(t)

SpecThreads == InitThreads /\ [][NextThreads]_vars

\* ================================================================ claims
RECURSIVE SumLines(_)
SumLines(s) == IF s = <<>> THEN 0 ELSE s[1].line_count + SumLines(Tail(s))

RECURSIVE SumLinesAbove(_, _)
SumLinesAbove(s, threshold) ==
    IF s = <<>> THEN 0
    ELSE (IF s[1].line_count > threshold THEN s[1].line_count ELSE 0)
         + SumLinesAbove(Tail(s), threshold)

RECURSIVE SumFlagged(_)
SumFlagged(s) ==
    IF s = <<>> THEN 0
    ELSE (IF s[1].above_threshold THEN s[1].line_count ELSE 0)
         + SumFlagged(Tail(s))

Graded == results.status = "Success"

\* C1: after calculate_grade on a non-empty list every entry's
\* above_threshold is exactly (line_count > line_threshold), strictly: an
\* entry at the threshold is flagged False and adds nothing to
\* lines_above_150, an entry one above it is flagged True and adds its whole
\* line_count.
C1_ThresholdStrict ==
    (Graded /\ file_details # <<>>) =>
        /\ \A i \in 1..Len(file_details) :
            /\ file_details[i].above_threshold
                   = (file_details[i].line_count > line_threshold)
            /\ file_details[i].line_count = line_threshold
                   => file_details[i].above_threshold = FALSE
            /\ file_details[i].line_count = line_threshold + 1
                   => file_details[i].above_threshold = TRUE
        /\ results.lines_above_150 = SumFlagged(file_details)

C1_Witness ==
    /\ Graded
    /\ \E i, j \in 1..Len(file_details) :
        /\ file_details[i].line_count = line_threshold
        /\ ~file_details[i].above_threshold
        /\ file_details[j].line_count = line_threshold + 1
        /\ file_details[j].above_threshold
    /\ results.lines_above_150 > 0

\* C2: a call of calculate_grade returns total_files = the number of entries
\* of its input, total_lines = the sum of their line_count, lines_above_150 =
\* the sum of the whole line_count of the entries with line_count >
\* line_threshold.
C2_Totals ==
    [][ /\ results'.total_files = Len(file_details)
        /\ results'.total_lines = SumLines(file_details)
        /\ results'.lines_above_150 = SumLinesAbove(file_details, line_threshold)
      ]_vars

C2_Witness ==
    /\ Graded
    /\ results.total_files = 3
    /\ line_threshold >= 1
    /\ \E i, j \in 1..Len(file_details) :
        /\ file_details[i].line_count > line_threshold + 1
        /\ file_details[j].line_count \in 1..line_threshold
    /\ results.lines_above_150 > 0
    /\ results.lines_above_150 < results.total_lines

\* g is num / den rounded to a nearest integer (at an exact tie the float
\* arithmetic decides which of the two neighbours; both are accepted)
IsRounded(g, num, den) ==
    LET diff == IF g * den >= num THEN g * den - num ELSE num - g * den
    IN  2 * diff <= den

\* C3: the grade is 0.0 whenever total_lines is 0 (empty input, or every
\* line_count 0), and otherwise (lines_above_150 / total_lines) * 100 rounded
\* to two decimals.
C3_GradeFormula ==
    Graded =>
        IF results.total_lines = 0
        THEN results.grade = 0
        ELSE IsRounded(results.grade, results.lines_above_150 * 10000,
                       results.total_lines)

C3_Witness ==
    /\ Graded
    /\ results.total_lines = 3
    /\ results.lines_above_150 = 2
    /\ results.grade = 6667

\* C4: for entries with line_count >= 0 and any integer line_threshold,
\* 0 <= lines_above_150 <= total_lines and 0.0 <= grade <= 100.0.
C4_Bounds ==
    Graded =>
        /\ 0 <= results.lines_above_150
        /\ results.lines_above_150 <= results.total_lines
        /\ 0 <= results.grade
        /\ results.grade <= 10000

C4_Witness ==
    /\ Graded
    /\ line_threshold < 0
    /\ results.total_lines > 0
    /\ results.lines_above_150 = results.total_lines
    /\ results.grade = 10000

Analyzed == repository_path # None

\* C5: analyze always returns a dictionary: status "Failed" with an error
\* message, grade 0.0, total_files 0 and empty file_details exactly when
\* something raised (a missing or non-directory path included), otherwise
\* status "Success" and no error key.
C5_FailedExactlyWhenRaised ==
    Analyzed =>
        /\ results.status \in {"Success", "Failed"}
        /\ (results.status = "Failed") = (raised # None)
        /\ (results.status = "Failed")
               = (~Exists(repository_path) \/ ~IsDir(repository_path))
        /\ results.status = "Failed" =>
            /\ "error" \in DOMAIN results
            /\ results.error = raised
            /\ results.grade = 0
            /\ results.total_files = 0
            /\ results.file_details = <<>>
        /\ results.status = "Success" => "error" \notin DOMAIN results

C5_Witness ==
    /\ repository_path = "plain_file"
    /\ repo_files # {}
    /\ results.status = "Failed"
    /\ results.error = NotADirectory

\* C6: analyze_repository raises a path-level error, and walks and counts
\* nothing, when repository_path does not exist or is no directory; on a
\* directory it raises nothing and walks at least the root.
C6_PathErrors ==
    Analyzed =>
        /\ repository_path = "missing" =>
               raised = DoesNotExist /\ walked = <<>> /\ counted_files = <<>>
        /\ repository_path = "plain_file" =>
               raised = NotADirectory /\ walked = <<>> /\ counted_files = <<>>
        /\ repository_path = "repo" => raised = None /\ walked # <<>>

C6_Witness ==
    /\ repository_path = "missing"
    /\ repo_files # {}
    /\ raised = DoesNotExist
    /\ walked = <<>>

\* the effective line counts of the candidate files under the default
\* flags, as the code counts them
ExpectedLines == <<2, 1, 1, 2, 1, 1, 2, 0, 1, 1, 1, 0>>

\* C7: an unreadable file never ends the scan: analyze_repository returns
\* one entry per file it handed to count_lines, with line_count 0 for an
\* unreadable file and the right count for every other one.
C7_UnreadableIsZero ==
    repository_path = "repo" =>
        /\ raised = None
        /\ results.status = "Success"
        /\ Len(file_details) = Len(counted_files)
        /\ \A k \in 1..Len(counted_files) :
            /\ file_details[k].filename = Join(PathOf(counted_files[k]), "/")
            /\ file_details[k].line_count =
                   IF counted_files[k] \in unreadable THEN 0
                   ELSE ExpectedLines[counted_files[k]]

C7_Witness ==
    /\ repository_path = "repo"
    /\ Len(file_details) = 2
    /\ \E j, k \in 1..Len(counted_files) :
        /\ counted_files[j] \in unreadable
        /\ file_details[j].line_count = 0
        /\ counted_files[k] \notin unreadable
        /\ file_details[k].line_count = 2
    /\ results.status = "Success"

\* C8: count_lines returns a pair of non-negative integers (raw, effective)
\* with effective <= raw, and raw is the number of pieces of the content
\* split on newline (one more than its newlines) when the file was read.
C8_EffectiveAtMostRaw ==
    lc_pc = "done" =>
        /\ lc_result[1] >= 0
        /\ lc_result[2] >= 0
        /\ lc_result[2] <= lc_result[1]
        /\ idx > 0 => lc_result[1] = Count(content, NL) + 1

C8_Witness ==
    /\ lc_pc = "done"
    /\ idx > 0
    /\ ~exclude_blank_lines
    /\ content # <<>> /\ content[Len(content)] = NL
    /\ lc_result[1] = 3
    /\ lc_result[2] = 3

\* what the default patterns are meant to exclude, read off the path itself
UnderDirectory(f, name) ==
    \E i \in 1..(Len(PathOf(f)) - 1) : PathOf(f)[i] = <<name>>
FileName(f) == PathOf(f)[Len(PathOf(f))]
NamedByPattern(f, n) ==
    CASE n = 1 -> UnderDirectory(f, "venv")
      [] n = 2 -> UnderDirectory(f, "__pycache__")
      [] n = 3 -> FileName(f)[1] = "test_" /\ EndsWith(FileName(f), <<".py">>)
      [] n = 4 -> EndsWith(FileName(f), <<"_test", ".py">>)
      [] n = 5 -> FileName(f) = <<"setup", ".py">>
      [] n = 6 -> FileName(f) = <<"conftest", ".py">>
Named(f) ==
    \E n \in 1..Len(DefaultPatterns) :
        /\ \E m \in 1..Len(exclude_patterns) :
               exclude_patterns[m] = DefaultPatterns[n]
        /\ NamedByPattern(f, n)

\* C9: no file below a directory named by a directory pattern and no file
\* with a name matching a file-name pattern, at any depth, is in
\* file_details; a repository of such files only gives total_files 0 and
\* grade 0.0.
C9_ExcludedNeverListed ==
    repository_path = "repo" =>
        /\ \A k \in 1..Len(counted_files) : ~Named(counted_files[k])
        /\ \A f \in repo_files :
               Named(f) => \A k \in 1..Len(file_details) :
                   file_details[k].filename # Join(PathOf(f), "/")
        /\ (\A f \in repo_files : Named(f)) =>
               /\ results.status = "Success"
               /\ results.total_files = 0
               /\ results.grade = 0

C9_Witness ==
    /\ repository_path = "repo"
    /\ exclude_patterns = DefaultPatterns
    /\ \E f, g \in repo_files :
        /\ Len(PathOf(f)) = 4 /\ UnderDirectory(f, "venv")
        /\ EndsWith(FileName(f), <<".py">>)
        /\ Len(PathOf(g)) = 3 /\ FileName(g)[1] = "test_"
    /\ results.status = "Success"
    /\ results.total_files = 0
    /\ results.grade = 0

\* C10: a directory named by a directory pattern of exclude_patterns is
\* pruned before the walk enters it: neither it nor anything below it is
\* ever listed by the walk.
C10_ExcludedDirectoryNeverWalked ==
    repository_path = "repo" =>
        \A k \in 1..Len(walked) : \A i \in 1..Len(walked[k]) :
            /\ (\E m \in 1..Len(exclude_patterns) :
                    exclude_patterns[m] = DefaultPatterns[1])
                   => walked[k][i] # <<"venv">>
            /\ (\E m \in 1..Len(exclude_patterns) :
                    exclude_patterns[m] = DefaultPatterns[2])
                   => walked[k][i] # <<"__pycache__">>

Range(s) == {s[i] : i \in 1..Len(s)}

NoCodeFiles == {8, 12}

\* C12: analyze of an empty directory returns total_files 0, total_lines 0,
\* grade 0.0 and "Success"; of a directory whose included files hold only
\* blank, comment-only and docstring lines it returns total_lines 0 and
\* grade 0.0 with "Success", and total_files still counts those files.
C12_ZeroFilesZeroLines ==
    repository_path = "repo" =>
        /\ repo_files = {} =>
            /\ results.status = "Success"
            /\ results.total_files = 0
            /\ results.total_lines = 0
            /\ results.grade = 0
        /\ (\A k \in 1..Len(counted_files) : counted_files[k] \in NoCodeFiles) =>
            /\ results.status = "Success"
            /\ results.total_files = Len(counted_files)
            /\ results.total_lines = 0
            /\ results.grade = 0
            /\ "error" \notin DOMAIN results

C12_Witness ==
    /\ repository_path = "repo"
    /\ repo_files = NoCodeFiles
    /\ unreadable = {}
    /\ Len(counted_files) = 2
    /\ results.status = "Success"
    /\ results.total_files = 2
    /\ results.total_lines = 0
    /\ results.grade = 0

\* C13: calculate_grade returns status "Success" for every list of entries
\* with a numeric line_count, the empty list included; no call returns
\* "Failed" or an error.
C13_AlwaysSuccess ==
    results # NoResult =>
        /\ results.status = "Success"
        /\ "error" \notin DOMAIN results
        /\ Len(results.file_details) = Len(file_details)

C13_Witness ==
    /\ results # NoResult
    /\ Len(file_details) = 2
    /\ \A k \in 1..2 : file_details[k].line_count = 0
    /\ results.total_lines = 0
    /\ results.status = "Success"

\* the grade records of email_id in the grades list
GradesOf(email_id) == {k \in 1..Len(grades) : grades[k].email_id = email_id}

\* the record's clone, analysis or grading call fails or raises
Fails(record) ==
    \/ record.email_id = None
    \/ clone_repository(record.repo_url, record.git).status # "Success"
    \/ record.analysis # "Success"

\* C14: process never aborts a batch because one repository fails: it
\* returns, the failing record has a grade record with status "Failed" and
\* grade 0.0, and every Ready record is graded, in the thread pool and in
\* the sequential loop alike.
C14_BatchNeverAborts ==
    /\ mgr_pc # "raised"
    /\ mgr_pc = "returned" =>
           \A i \in 1..Len(tasks) :
               /\ GradesOf(tasks[i].record.email_id) # {}
               /\ Fails(tasks[i].record) =>
                      \A k \in GradesOf(tasks[i].record.email_id) :
                          grades[k].status = "Failed" /\ grades[k].grade = 0

AnalysisEnds == {"analysed", "analysis failed", "analysis raised"}

\* C16: with delete_repos_after_grading on, a grading call whose clone
\* succeeded calls cleanup_repository on its clone path once, after its
\* analysis has ended (succeeded, returned "Failed" or raised) and before
\* it returns; the call never cleans up before or during its analysis.
C16_CleanupAfterAnalysis ==
    delete_repos_after_grading =>
        \A i \in 1..Len(tasks) :
            LET task == tasks[i]
            IN  /\ task.pc \in {"queued", "clone", "analyze", "finally"} =>
                       \A k \in 1..Len(task.events) : task.events[k] # "cleanup"
                /\ (task.pc \in {"done", "collected"} /\ task.clone_path # None) =>
                       /\ Len(task.events) = 4
                       /\ task.events[1] = "cloned"
                       /\ task.events[2] \in AnalysisEnds
                       /\ task.events[3] = "cleanup"
                       /\ task.events[4] = "return"
                /\ (task.pc \in {"done", "collected"} /\ task.clone_path = None) =>
                       \A k \in 1..Len(task.events) : task.events[k] # "cleanup"

C16_Witness ==
    /\ delete_repos_after_grading
    /\ Len(tasks) = 3
    /\ \A i \in 1..3 :
           /\ tasks[i].pc = "done"
           /\ tasks[i].clone_path # None
           /\ tasks[i].events[3] = "cleanup"
    /\ tasks[1].events[2] = "analysed"
    /\ tasks[2].events[2] = "analysis failed"
    /\ tasks[3].events[2] = "analysis raised"

\* the grading calls that are running with a URL clone_repository accepts
Cloning(i) == i \in Running /\ validate_url(tasks[i].record.repo_url)

\* C17: two gradings of different repository URLs that run at once in the
\* thread pool never use the same clone directory: clone_repository chooses
\* distinct destination directories for distinct URLs, URLs of different
\* owners with the same repository name included.
C17_DistinctCloneDirectories ==
    \A i, j \in 1..Len(tasks) :
        (/\ i # j
         /\ Cloning(i) /\ Cloning(j)
         /\ tasks[i].record.repo_url # tasks[j].record.repo_url) =>
            destination_dir(tasks[i].record.repo_url)
                # destination_dir(tasks[j].record.repo_url)

\* what analyze returns for a directory when the call runs alone
Alone(tree) ==
    analyze(analyze_repository("repo", tree, {}, file_extensions,
                               exclude_patterns, CurrentFlags), line_threshold)

\* C18: no step of count_lines, analyze_repository or calculate_grade changes
\* a constructor-time field (the exclude flags, file_extensions,
\* exclude_patterns, line_threshold), and two analyze calls on different
\* directories interleaved on one service return what each returns alone.
C18_InterleavedAsAlone ==
    [][/\ cfg_vars' = cfg_vars
       /\ \A t \in 1..Len(threads') :
              threads'[t].pc = "done" => threads'[t].result = Alone(threads'[t].tree)]_vars

C18_Witness ==
    /\ Len(threads) = 2
    /\ threads[1].tree = {8, 12} /\ threads[2].tree = {1, 8}
    /\ exclude_docstrings /\ exclude_patterns = <<>>
    /\ threads[1].pc = "scan" /\ threads[1].in_docstring
    /\ threads[2].pc = "done"
    /\ threads[2].result.total_lines = 2

\* the loop of _count_effective_lines handles line lines[idx] in this step
Scanning == lc_pc = "scan" /\ idx <= Len(lines) /\ idx' = idx + 1

\* the line has code on it: not blank, not a comment, no delimiter
IsStatement(line) ==
    /\ Strip(line) # <<>>
    /\ Strip(line)[1] # "#"
    /\ Count(line, DQ) = 0 /\ Count(line, SQ) = 0

\* C19: with exclude_docstrings set, a line outside any block with exactly
\* one occurrence of a triple-quote delimiter opens a block of that
\* delimiter and is not counted; no line in the block is counted, whatever
\* it contains; the first line that contains the same delimiter closes the
\* block, a line with only the other delimiter does not; the line after
\* the closer is counted as a line outside any block is.
C19_BlockNotCounted ==
    [][(Scanning /\ exclude_docstrings) =>
        LET line == lines[idx]
        IN  /\ (~in_docstring /\ Count(line, DQ) + Count(line, SQ) = 1) =>
                   /\ counted' = counted
                   /\ in_docstring'
                   /\ docstring_delimiter' = IF Count(line, DQ) = 1 THEN DQ ELSE SQ
            /\ in_docstring =>
                   /\ counted' = counted
                   /\ docstring_delimiter \in {DQ, SQ}
                   /\ in_docstring' = (Count(line, docstring_delimiter) = 0)
                   /\ in_docstring' => docstring_delimiter' = docstring_delimiter
            /\ (~in_docstring /\ IsStatement(line)) =>
                   /\ counted' = counted + 1
                   /\ ~in_docstring']_vars

\* a block opened by the first line, holding a statement and a line of the
\* other delimiter, closed by the fourth line, has been scanned
C19_Witness ==
    /\ lc_pc = "done"
    /\ exclude_docstrings
    /\ lines = << <<"x", DQ>>, <<"x">>, <<SQ>>, <<"x", DQ>> >>
    /\ ~in_docstring
    /\ lc_result = <<4, 0>>

\* the line holds one kind of delimiter, twice: it opens and closes on it
OpensAndCloses(line) ==
    \/ Count(line, DQ) = 2 /\ Count(line, SQ) = 0
    \/ Count(line, SQ) = 2 /\ Count(line, DQ) = 0

StateAfter(n) == ScanFrom(SubSeq(lines, 1, n), 1, InitialScan, CurrentFlags)

\* line o, reached outside any block, holds one delimiter, and that
\* delimiter is on no later line
OpensForGood(o) ==
    /\ ~StateAfter(o - 1).in_docstring
    /\ Count(lines[o], DQ) + Count(lines[o], SQ) = 1
    /\ \A j \in (o + 1)..Len(lines) :
           \A d \in {DQ, SQ} : Count(lines[o], d) = 1 => Count(lines[j], d) = 0

\* C21: with exclude_docstrings set, when a block is opened and its
\* delimiter is on no later line, no line from the opener to the end of the
\* file is counted: the effective count is the count of the lines before
\* the opener.
C21_UnterminatedBlock ==
    (lc_pc = "done" /\ exclude_docstrings /\ lines # <<>>) =>
        \A o \in 1..Len(lines) :
            OpensForGood(o) =>
                /\ lc_result[2] = StateAfter(o - 1).counted
                /\ in_docstring

C21_Witness ==
    /\ lc_pc = "done"
    /\ exclude_docstrings
    /\ lines = << <<"x">>, <<"x", DQ>>, <<"x">>, <<SQ>> >>
    /\ OpensForGood(2)
    /\ in_docstring
    /\ lc_result = <<4, 1>>

\* the line is a comment: its first character after whitespace is the hash
IsCommentOnly(line) == Strip(line) # <<>> /\ Strip(line)[1] = "#"

\* the line has code first: not blank, not a comment (a hash may follow)
IsCode(line) == Strip(line) # <<>> /\ Strip(line)[1] # "#"

\* the docstring tests leave the line alone: tracking is off, or the
\* line is outside any block and holds no delimiter
PastDocstringTests(line) ==
    \/ ~exclude_docstrings
    \/ ~in_docstring /\ Count(line, DQ) = 0 /\ Count(line, SQ) = 0

NumberOf(P(_)) == Cardinality({j \in 1..Len(lines) : P(lines[j])})

\* C22: with exclude_comments set, a line outside any block is left out as
\* a comment exactly when its first character after whitespace is '#'; a
\* code line with a trailing comment is counted; a file of 2 comment-only
\* lines and 2 code lines has effective count 2.
C22_CommentOnlyLines ==
    [][exclude_comments =>
        /\ (Scanning /\ PastDocstringTests(lines[idx])) =>
               /\ IsCommentOnly(lines[idx]) => counted' = counted
               /\ IsCode(lines[idx]) => counted' = counted + 1
        /\ (/\ lc_pc = "scan" /\ lc_pc' = "done"
            /\ Len(lines) = 4
            /\ NumberOf(IsCommentOnly) = 2
            /\ NumberOf(LAMBDA l : IsCode(l) /\ Count(l, DQ) + Count(l, SQ) = 0) = 2) =>
               lc_result' = <<4, 2>>]_vars

C22_Witness ==
    /\ lc_pc = "done"
    /\ exclude_comments /\ exclude_docstrings /\ exclude_blank_lines
    /\ lines = << <<" ", "#", "x">>, <<"x", "#", "x">>, <<" ", "#", "x">>, <<"x">> >>
    /\ lc_result = <<4, 2>>

\* nothing but whitespace on the line
IsBlank(line) == \A i \in 1..Len(line) : line[i] = " "

\* C23: with exclude_blank_lines set, a line that is empty after stripping
\* whitespace is never counted and never changes the inside-docstring
\* state; with it unset, such a line outside a block is counted, the empty
\* last piece after a trailing newline included.
C23_BlankLines ==
    [][(Scanning /\ IsBlank(lines[idx])) =>
        /\ exclude_blank_lines =>
               /\ counted' = counted
               /\ in_docstring' = in_docstring
               /\ docstring_delimiter' = docstring_delimiter
        /\ (~exclude_blank_lines /\ ~in_docstring) =>
               /\ counted' = counted + 1
               /\ ~in_docstring']_vars

C23_Witness ==
    /\ lc_pc = "done"
    /\ ~exclude_blank_lines
    /\ content = <<"x", NL, " ", NL>>
    /\ lines = << <<"x">>, <<" ">>, <<>> >>
    /\ lc_result = <<3, 3>>

\* C24: with exclude_docstrings unset the counter tracks no triple quotes:
\* it never enters the inside-docstring state, and every line, lines that
\* hold or lie between delimiters included, is counted unless it is blank
\* (with exclude_blank_lines) or comment-only (with exclude_comments).
C24_NoTracking ==
    [][~exclude_docstrings =>
        /\ ~in_docstring'
        /\ docstring_delimiter' = None
        /\ Scanning =>
               counted' = counted
                   + (IF \/ exclude_blank_lines /\ IsBlank(lines[idx])
                         \/ exclude_comments /\ IsCommentOnly(lines[idx])
                      THEN 0 ELSE 1)]_vars

C24_Witness ==
    /\ lc_pc = "done"
    /\ ~exclude_docstrings /\ exclude_blank_lines /\ exclude_comments
    /\ lines = << <<DQ>>, <<"x">>, <<" ", "#", "x">>, <<DQ>> >>
    /\ lc_result = <<4, 3>>

\* some pattern matches the relative path or the path left after dropping
\* leading components
SuffixRule(rel, patterns) ==
    \E n \in 1..Len(patterns) :
        \E i \in 1..Len(rel) :
            fnmatch(Join(SubSeq(rel, i, Len(rel)), "/"), NormalizePattern(patterns[n]))

\* the walk reaches the file: no directory above it is excluded
Reachable(f) ==
    \A n \in 1..(Len(PathOf(f)) - 1) :
        ~SuffixRule(SubSeq(PathOf(f), 1, n), exclude_patterns)

\* the files the rule lets through
ExpectedEntries ==
    {f \in repo_files :
        /\ Reachable(f)
        /\ \E e \in 1..Len(file_extensions) : EndsWith(FileName(f), file_extensions[e])
        /\ ~SuffixRule(PathOf(f), exclude_patterns)}

\* C25: a path is excluded exactly when some exclude pattern matches its
\* relative path or one of its suffixes by components; the entries that
\* analyze_repository returns are exactly the files the walk reaches whose
\* name ends with an included extension and whose path is not excluded.
C25_ExcludedBySuffixRule ==
    repository_path = "repo" =>
        /\ \A f \in repo_files :
               is_excluded(PathOf(f), exclude_patterns)
                   <=> SuffixRule(PathOf(f), exclude_patterns)
        /\ {counted_files[k] : k \in 1..Len(counted_files)} = ExpectedEntries
        /\ Len(counted_files) = Cardinality(ExpectedEntries)
        /\ {results.file_details[k].filename : k \in 1..Len(results.file_details)}
               = {Join(PathOf(f), "/") : f \in ExpectedEntries}

C25_Witness ==
    /\ repository_path = "repo"
    /\ exclude_patterns = DefaultPatterns
    /\ repo_files = {8, 10}
    /\ SuffixRule(PathOf(10), exclude_patterns)
    /\ ~fnmatch(Join(PathOf(10), "/"), NormalizePattern(DefaultPatterns[3]))
    /\ counted_files = <<8>>
    /\ results.total_files = 1

\* C26: a file-name pattern such as **/test_*.py or **/*_test.py excludes a
\* file only when the file's own name matches it: a file of another name is
\* listed even when it lies in a directory whose name begins with test_
\* (test_utils/helper.py) or beside components that together match.
C26_NamePatternsMatchNameOnly ==
    repository_path = "repo" =>
        \A f \in repo_files :
            (EndsWith(FileName(f), <<".py">>) /\ ~Named(f)) =>
                \E k \in 1..Len(counted_files) : counted_files[k] = f

\* the name ends with one of file_extensions
NameHasExtension(name) ==
    \E e \in 1..Len(file_extensions) : EndsWith(name, file_extensions[e])

\* C27: only files whose name ends with one of file_extensions appear in
\* file_details, whatever the exclude patterns are: a file of another
\* name is never counted, with or without patterns.
C27_OnlyIncludedExtensions ==
    repository_path = "repo" =>
        /\ \A k \in 1..Len(results.file_details) :
               NameHasExtension(results.file_details[k].filename)
        /\ \A k \in 1..Len(counted_files) :
               NameHasExtension(FileName(counted_files[k]))
        /\ \A f \in repo_files :
               ~NameHasExtension(FileName(f)) =>
                   \A k \in 1..Len(results.file_details) :
                       results.file_details[k].filename # Join(PathOf(f), "/")

C27_Witness ==
    /\ repository_path = "repo"
    /\ exclude_patterns = <<>>
    /\ repo_files = {1, 6}
    /\ ~NameHasExtension(FileName(6))
    /\ counted_files = <<1>>
    /\ results.total_files = 1

\* C28: calculate_grade changes nothing in its input but the
\* above_threshold flag: the returned file_details holds the same entries in
\* the same (discovery) order with filename and line_count unchanged, and
\* the entries come from the File Analyzer with above_threshold False.
C28_OnlyFlagChanges ==
    \A t \in 1..Len(threads) :
        LET found == threads[t].file_details
            returned == threads[t].result.file_details
        IN  /\ \A k \in 1..Len(found) :
                   /\ found[k].above_threshold = FALSE
                   /\ found[k].filename = Join(PathOf(threads[t].python_files[k]), "/")
            /\ threads[t].pc = "done" =>
                   /\ Len(returned) = Len(found)
                   /\ Len(found) = Len(threads[t].python_files)
                   /\ \A k \in 1..Len(found) :
                          /\ returned[k].filename = found[k].filename
                          /\ returned[k].line_count = found[k].line_count
                          /\ DOMAIN returned[k] = DOMAIN found[k]

C28_Witness ==
    /\ Len(threads) = 2
    /\ threads[1].pc = "done"
    /\ threads[1].tree = {1, 8}
    /\ line_threshold = 1
    /\ Len(threads[1].result.file_details) = 2
    /\ threads[1].result.file_details[1].above_threshold
    /\ ~threads[1].file_details[1].above_threshold
    /\ threads[1].result.file_details[1].filename # threads[1].result.file_details[2].filename

\* C29: while one worker of process analyzes its clone directory, no other
\* worker's cleanup_repository call and no removal by a failed clone
\* deletes it: a directory cloned with success exists from the success of
\* the clone until the cleanup of its own worker.
C29_CloneKeptWhileAnalyzed ==
    \A i \in 1..Len(tasks) :
        (tasks[i].pc \in {"analyze", "finally"} /\ tasks[i].clone_path # None) =>
            tasks[i].clone_exists

\* the call of record can reach its analysis: it has a repo_url, both child
\* services are there and the clone returns "Success"
ReachesAnalysis(record) ==
    /\ record.repo_url # <<>>
    /\ github_cloner # None /\ python_analyzer # None
    /\ clone_repository(record.repo_url, record.git).status = "Success"

\* the call has returned a grade record (a call whose email_id is None raises
\* at its first statement and returns none)
Returned(task) ==
    task.pc \in {"done", "collected"} /\ task.record.email_id # None

\* C30: a grade record returned by grade_single_repository has status
\* "Ready" exactly when the clone returned "Success" and the analysis neither
\* returned "Failed" nor raised; a "Ready" record carries the analysis grade
\* rounded to 2 decimals and error None, a "Failed" record carries grade 0.0
\* and an error that is not None; the analysis is never started when the
\* repo_url is missing, a child service is unavailable or the clone failed.
C30_ReadyExactlyOnSuccess ==
    \A i \in 1..Len(tasks) :
        LET record == tasks[i].record
            result == tasks[i].result
        IN  /\ Returned(tasks[i]) =>
                   /\ result.status \in {"Ready", "Failed"}
                   /\ result.email_id = record.email_id
                   /\ result.status = "Ready" <=>
                          (ReachesAnalysis(record) /\ record.analysis = "Success")
                   /\ result.status = "Ready" =>
                          /\ IsRounded(result.grade, record.grade, 10)
                          /\ result.error = None
                   /\ result.status = "Failed" =>
                          /\ result.grade = 0
                          /\ result.error # None
            /\ ~ReachesAnalysis(record) =>
                   /\ tasks[i].pc # "analyze"
                   /\ Range(tasks[i].events) \cap AnalysisEnds = {}

C30_Witness ==
    /\ Len(tasks) = 3
    /\ \A i \in 1..3 : tasks[i].pc = "collected"
    /\ tasks[1].record.grade = 66666
    /\ tasks[1].result = [email_id |-> "a1", grade |-> 6667, status |-> "Ready",
                          error |-> None]
    /\ tasks[2].record.analysis = "Failed"
    /\ tasks[2].result.status = "Failed"
    /\ "analysis failed" \in Range(tasks[2].events)
    /\ tasks[3].record.git = "fail"
    /\ tasks[3].result.status = "Failed"
    /\ tasks[3].events = <<"clone failed", "return">>

====
